---- MODULE Spec2Model ----
(***************************************************************************)
(* Ticket issuance and transfer of the lumentix backend (TicketsService).  *)
(* Every invocation of issueTicket / transferTicket is a process that      *)
(* yields at each await; the ticket store is the only shared state.        *)
(***************************************************************************)
EXTENDS Integers, Sequences, FiniteSets, TLC

\* ------------------------------------------------------------------ bounds
NumProcs == 2       \* invocations that may be in flight at the same time
MaxCalls == 3       \* invocations started in one behaviour
MaxTickets == 3     \* rows the ticket table may hold

Procs == 1..NumProcs

\* ------------------------------------------------------------ JS values
Undefined == "<undefined>"

\* JavaScript `!s` for a value that is a string or undefined.
Falsy(s) == s = Undefined \/ s = ""

\* ------------------------------------------------------- payments fixture
PaymentIds == {"p1", "p2", "p3", "p4", "p5", "p6", "p7", "p8", "p9", "p10"}
UnknownPaymentId == "p0"
Users == {"u1", "u2"}

Pay(id, st, h, e, u, c) ==
    [id |-> id, status |-> st, transactionHash |-> h,
     eventId |-> e, userId |-> u, currency |-> c]

NoPayment == Pay(Undefined, Undefined, Undefined, Undefined, Undefined, Undefined)

\* The payment records the payments service holds (read-only to this core).
Payments ==
    [id \in PaymentIds |->
        CASE id = "p1"  -> Pay(id, "confirmed", "tx1", "e1", "u1", "USDC")
          [] id = "p2"  -> Pay(id, "confirmed", "tx1", "e2", "u2", "XLM")
          [] id = "p3"  -> Pay(id, "confirmed", "tx2", "e2", "u2", "XLM")
          [] id = "p4"  -> Pay(id, "confirmed", "tx3", "e1", "u1", "USDC")
          [] id = "p5"  -> Pay(id, "confirmed", "tx4", "e1", "u2", "USDC")
          [] id = "p6"  -> Pay(id, "confirmed", "tx5", "e2", "u1", "XLM")
          [] id = "p7"  -> Pay(id, "pending", "tx1", "e1", "u1", "USDC")
          [] id = "p8"  -> Pay(id, "failed", Undefined, "e1", "u2", "USDC")
          [] id = "p9"  -> Pay(id, "confirmed", Undefined, "e2", "u1", "XLM")
          [] id = "p10" -> Pay(id, "confirmed", "", "e2", "u2", "XLM")]

\* PaymentsService.getPaymentById: the record, or its own not-found error.
GetPaymentById(id) == IF id \in PaymentIds THEN Payments[id] ELSE NoPayment

\* ------------------------------------------------------------ chain fixture
\* tx.memo as JavaScript sees it: typeof is "string", "object" or "undefined".
Memo(ty, v) == [typeof |-> ty, value |-> v]

Chain ==
    [h \in {"tx1", "tx2", "tx3", "tx4", "tx5"} |->
        CASE h = "tx1" -> [hash |-> h, memo |-> Memo("string", "p1")]
          [] h = "tx2" -> [hash |-> h, memo |-> Memo("string", "p3")]
          [] h = "tx3" -> [hash |-> h, memo |-> Memo("object", "p4")]
          [] h = "tx4" -> [hash |-> h, memo |-> Memo("undefined", Undefined)]
          [] h = "tx5" -> [hash |-> h, memo |-> Memo("string", "")]]

\* StellarService.getTransaction
GetTransaction(h) ==
    IF h \in DOMAIN Chain THEN Chain[h]
    ELSE [hash |-> h, memo |-> Memo("undefined", Undefined)]

\* The memo taken whatever its type.
MemoValue_AnyType(tx) == tx.memo.value

\* const memoValue = typeof tx.memo === 'string' ? tx.memo : undefined
MemoValue(tx) == IF tx.memo.typeof = "string" THEN tx.memo.value ELSE Undefined

\* ------------------------------------------------------------ ticket store
Tkt(i, e, o, a, h, s) ==
    [id |-> i, eventId |-> e, ownerId |-> o, assetCode |-> a,
     transactionHash |-> h, status |-> s]

\* "no row" / null
NoTicket == Tkt(0, Undefined, Undefined, Undefined, Undefined, Undefined)

Statuses == {"valid", "revoked"}

VARIABLES
    tickets,    \* the ticket table: a sequence of rows, row i has id i
    pc,         \* per process: "idle", "findOne", "getTransaction", "save", "done"
    op,         \* per process: "none", "issue", "transfer"
    args,       \* per process: the arguments of the invocation
    payment,    \* per process: local `payment`
    ticket,     \* per process: local `existing` / `ticket`
    outcome,    \* per process: how the invocation ended
    result,     \* per process: the ticket the invocation returned
    found,      \* per process: what findOne answered (history)
    lookups,    \* per process: ticketRepo.findOne calls made (history)
    fetches,    \* per process: stellarService.getTransaction calls made (history)
    writes,     \* per process: rows this invocation inserted or updated (history)
    prior,      \* per process: ids issueTicket had returned for the payment at call time
    returned,   \* per payment id: ticket ids issueTicket has returned (history)
    calls,      \* invocations started so far
    lastOwner,  \* per row: the owner its issuance or its latest successful
                \* transfer gave it (history)
    rejected,   \* payment ids for which the store has rejected a save (history)
    afterReject \* per process: the invocation started after a save for its
                \* payment had been rejected (history)

vars == <<tickets, pc, op, args, payment, ticket, outcome, result, found,
          lookups, fetches, writes, prior, returned, calls, lastOwner,
          rejected, afterReject>>

NoArgs == [paymentId |-> Undefined, ticketId |-> 0,
           callerOwnerId |-> Undefined, newOwnerId |-> Undefined]

Rows == {tickets[i] : i \in 1..Len(tickets)}

\* ticketRepo.findOne({ where: { transactionHash } })
FindOneByHash(h) ==
    IF \E i \in 1..Len(tickets) : tickets[i].transactionHash = h
    THEN tickets[CHOOSE i \in 1..Len(tickets) :
                    /\ tickets[i].transactionHash = h
                    /\ \A j \in 1..(i - 1) : tickets[j].transactionHash # h]
    ELSE NoTicket

\* ticketRepo.findOne({ where: { id } })
FindOneById(i) == IF i \in 1..Len(tickets) THEN tickets[i] ELSE NoTicket

\* A table without the uniqueness constraint.
UniqueOk_NoConstraint(t) == TRUE

\* The uniqueness constraint on transactionHash: may row t be written?
UniqueOk(t) ==
    \A i \in 1..Len(tickets) :
        tickets[i].transactionHash = t.transactionHash => i = t.id

\* ticketRepo.save: insert an entity without id, update the row of one with id.
SavedRow(t) == IF t.id = 0 THEN [t EXCEPT !.id = Len(tickets) + 1] ELSE t

SavedTable(t) ==
    IF t.id = 0 THEN Append(tickets, SavedRow(t))
    ELSE [tickets EXCEPT ![t.id] = t]

Init ==
    /\ tickets = <<>>
    /\ pc = [p \in Procs |-> "idle"]
    /\ op = [p \in Procs |-> "none"]
    /\ args = [p \in Procs |-> NoArgs]
    /\ payment = [p \in Procs |-> NoPayment]
    /\ ticket = [p \in Procs |-> NoTicket]
    /\ outcome = [p \in Procs |-> "none"]
    /\ result = [p \in Procs |-> NoTicket]
    /\ found = [p \in Procs |-> NoTicket]
    /\ lookups = [p \in Procs |-> 0]
    /\ fetches = [p \in Procs |-> 0]
    /\ writes = [p \in Procs |-> 0]
    /\ prior = [p \in Procs |-> {}]
    /\ returned = [id \in PaymentIds |-> {}]
    /\ calls = 0
    /\ lastOwner = <<>>
    /\ rejected = {}
    /\ afterReject = [p \in Procs |-> FALSE]

\* The invocation of p ends by throwing exception e.
Throw(p, e) ==
    /\ pc' = [pc EXCEPT ![p] = "done"]
    /\ outcome' = [outcome EXCEPT ![p] = e]
    /\ result' = [result EXCEPT ![p] = NoTicket]
    /\ returned' = returned

\* The invocation of p ends by returning ticket t.
ReturnTicket(p, t) ==
    /\ pc' = [pc EXCEPT ![p] = "done"]
    /\ outcome' = [outcome EXCEPT ![p] = "Ticket"]
    /\ result' = [result EXCEPT ![p] = t]
    /\ returned' = IF op[p] = "issue"
                   THEN [returned EXCEPT ![args[p].paymentId] = @ \cup {t.id}]
                   ELSE returned

\* The status check left out.
NotConfirmed_Omitted(pay) == FALSE

\* if (payment.status !== PaymentStatus.CONFIRMED)
NotConfirmed(pay) == pay.status # "confirmed"

\* Only an absent hash is caught, an empty one is not.
NoHash_UndefinedOnly(pay) == pay.transactionHash = Undefined

\* if (!payment.transactionHash)
NoHash(pay) == Falsy(pay.transactionHash)

\* issueTicket up to the first store access: the payment lookup and the
\* checks on the payment, in the order of the code.
PaymentCheck(pay) ==
    IF pay = NoPayment THEN "NotFound"
    ELSE IF NotConfirmed(pay) THEN "InvalidRequest"
    ELSE IF NoHash(pay) THEN "InvalidRequest"
    ELSE "ok"

IssueTicketStart(p, paymentId) ==
    /\ pc[p] = "idle"
    /\ calls < MaxCalls
    /\ calls' = calls + 1
    /\ op' = [op EXCEPT ![p] = "issue"]
    /\ args' = [args EXCEPT ![p] = [NoArgs EXCEPT !.paymentId = paymentId]]
    /\ prior' = [prior EXCEPT ![p] =
                    IF paymentId \in PaymentIds THEN returned[paymentId] ELSE {}]
    /\ LET pay == GetPaymentById(paymentId) IN
        /\ payment' = [payment EXCEPT ![p] = pay]
        /\ IF PaymentCheck(pay) = "ok"
           THEN /\ pc' = [pc EXCEPT ![p] = "findOne"]
                /\ UNCHANGED <<outcome, result, returned>>
           ELSE Throw(p, PaymentCheck(pay))
    /\ afterReject' = [afterReject EXCEPT ![p] = paymentId \in rejected]
    /\ UNCHANGED <<tickets, ticket, found, lookups, fetches, writes, lastOwner,
                   rejected>>

\* The early return left out.
IsExisting_Ignored(t) == FALSE

\* if (existing) return existing
IsExisting(t) == t # NoTicket

\* The idempotency lookup by transaction hash and the early return.
IssueFindOne(p) ==
    /\ pc[p] = "findOne"
    /\ op[p] = "issue"
    /\ LET existing == FindOneByHash(payment[p].transactionHash) IN
        /\ found' = [found EXCEPT ![p] = existing]
        /\ lookups' = [lookups EXCEPT ![p] = @ + 1]
        /\ IF IsExisting(existing)
           THEN /\ ticket' = [ticket EXCEPT ![p] = existing]
                /\ ReturnTicket(p, existing)
           ELSE /\ pc' = [pc EXCEPT ![p] = "getTransaction"]
                /\ UNCHANGED <<ticket, outcome, result, returned>>
    /\ UNCHANGED <<tickets, op, args, payment, fetches, writes, prior, calls,
                   lastOwner, rejected, afterReject>>

\* if (!memoValue)
MemoMissing(memoValue) == Falsy(memoValue)

\* The comparison with the payment id left out.
MemoMismatch_Omitted(memoValue, pay) == FALSE

\* if (memoValue !== payment.id)
MemoMismatch(memoValue, pay) == memoValue # pay.id

\* ownerId taken from the payment's id instead of its userId.
CreateTicket_OwnerFromId(pay) ==
    Tkt(0, pay.eventId, pay.id, pay.currency, pay.transactionHash, "valid")

\* this.ticketRepo.create({...}): an entity that has no id yet
CreateTicket(pay) ==
    Tkt(0, pay.eventId, pay.userId, pay.currency, pay.transactionHash, "valid")

\* The chain fetch, the memo checks and the construction of the entity.
IssueGetTransaction(p) ==
    /\ pc[p] = "getTransaction"
    /\ LET tx == GetTransaction(payment[p].transactionHash)
           memoValue == MemoValue(tx) IN
        /\ fetches' = [fetches EXCEPT ![p] = @ + 1]
        /\ IF MemoMissing(memoValue)
           THEN /\ Throw(p, "InvalidRequest")
                /\ ticket' = ticket
           ELSE IF MemoMismatch(memoValue, payment[p])
           THEN /\ Throw(p, "InvalidRequest")
                /\ ticket' = ticket
           ELSE /\ ticket' = [ticket EXCEPT ![p] = CreateTicket(payment[p])]
                /\ pc' = [pc EXCEPT ![p] = "save"]
                /\ UNCHANGED <<outcome, result, returned>>
    /\ UNCHANGED <<tickets, op, args, payment, found, lookups, writes, prior,
                   calls, lastOwner, rejected, afterReject>>

\* return this.ticketRepo.save(ticket): the store rejects a row that would
\* duplicate a transaction hash, and the rejection ends the invocation.
Save(p) ==
    /\ pc[p] = "save"
    /\ Len(SavedTable(ticket[p])) <= MaxTickets
    /\ IF UniqueOk(ticket[p])
       THEN /\ tickets' = SavedTable(ticket[p])
            /\ writes' = [writes EXCEPT ![p] = @ + 1]
            /\ lastOwner' = IF op[p] = "transfer"
                            THEN [lastOwner EXCEPT
                                    ![args[p].ticketId] = args[p].newOwnerId]
                            ELSE Append(lastOwner, payment[p].userId)
            /\ ReturnTicket(p, SavedRow(ticket[p]))
            /\ rejected' = rejected
       ELSE /\ Throw(p, "QueryFailed")
            /\ rejected' = rejected \cup {payment[p].id}
            /\ UNCHANGED <<tickets, writes, lastOwner>>
    /\ UNCHANGED <<op, args, payment, ticket, found, lookups, fetches, prior,
                   calls, afterReject>>

IssueSave(p) == op[p] = "issue" /\ Save(p)

\* The check for a missing ticket left out.
Missing_Omitted(t) == FALSE

\* if (!ticket)
Missing(t) == t = NoTicket

\* if (ticket.ownerId !== callerOwnerId)
NotOwner(t, callerOwnerId) == t.ownerId # callerOwnerId

\* The status check left out.
NotTransferable_Omitted(t) == FALSE

\* if (ticket.status !== 'valid')
NotTransferable(t) == t.status # "valid"

\* The status check placed before the ownership check.
TransferCheck_StatusFirst(t, callerOwnerId) ==
    IF Missing(t) THEN "NotFound"
    ELSE IF NotTransferable(t) THEN "InvalidRequest"
    ELSE IF NotOwner(t, callerOwnerId) THEN "Forbidden"
    ELSE "ok"

\* The checks of transferTicket on what findOne answered, in code order.
TransferCheck(t, callerOwnerId) ==
    IF Missing(t) THEN "NotFound"
    ELSE IF NotOwner(t, callerOwnerId) THEN "Forbidden"
    ELSE IF NotTransferable(t) THEN "InvalidRequest"
    ELSE "ok"

\* The assignment left out.
Reassign_Forgotten(t, newOwnerId) == t

\* ticket.ownerId = newOwnerId
Reassign(t, newOwnerId) == [t EXCEPT !.ownerId = newOwnerId]

\* transferTicket up to the save: the lookup by id, the checks and the
\* assignment to the loaded entity.
TransferTicketStart(p, ticketId, callerOwnerId, newOwnerId) ==
    /\ pc[p] = "idle"
    /\ calls < MaxCalls
    /\ calls' = calls + 1
    /\ op' = [op EXCEPT ![p] = "transfer"]
    /\ args' = [args EXCEPT ![p] =
                  [NoArgs EXCEPT !.ticketId = ticketId,
                                 !.callerOwnerId = callerOwnerId,
                                 !.newOwnerId = newOwnerId]]
    /\ LET t == FindOneById(ticketId) IN
        /\ found' = [found EXCEPT ![p] = t]
        /\ lookups' = [lookups EXCEPT ![p] = @ + 1]
        /\ IF TransferCheck(t, callerOwnerId) = "ok"
           THEN /\ ticket' = [ticket EXCEPT ![p] = Reassign(t, newOwnerId)]
                /\ pc' = [pc EXCEPT ![p] = "save"]
                /\ UNCHANGED <<outcome, result, returned>>
           ELSE /\ Throw(p, TransferCheck(t, callerOwnerId))
                /\ ticket' = ticket
    /\ UNCHANGED <<tickets, payment, fetches, writes, prior, lastOwner,
                   rejected, afterReject>>

TransferSave(p) == op[p] = "transfer" /\ Save(p)

\* The caller has its answer; the process is free for the next invocation.
Return(p) ==
    /\ pc[p] = "done"
    /\ pc' = [pc EXCEPT ![p] = "idle"]
    /\ op' = [op EXCEPT ![p] = "none"]
    /\ args' = [args EXCEPT ![p] = NoArgs]
    /\ payment' = [payment EXCEPT ![p] = NoPayment]
    /\ ticket' = [ticket EXCEPT ![p] = NoTicket]
    /\ outcome' = [outcome EXCEPT ![p] = "none"]
    /\ result' = [result EXCEPT ![p] = NoTicket]
    /\ found' = [found EXCEPT ![p] = NoTicket]
    /\ lookups' = [lookups EXCEPT ![p] = 0]
    /\ fetches' = [fetches EXCEPT ![p] = 0]
    /\ writes' = [writes EXCEPT ![p] = 0]
    /\ prior' = [prior EXCEPT ![p] = {}]
    /\ afterReject' = [afterReject EXCEPT ![p] = FALSE]
    /\ UNCHANGED <<tickets, returned, calls, lastOwner, rejected>>

\* A ticket leaves the 'valid' state by logic outside TicketsService.
ExternalStatusChange(i) ==
    /\ i \in 1..Len(tickets)
    /\ tickets[i].status = "valid"
    /\ tickets' = [tickets EXCEPT ![i].status = "revoked"]
    /\ UNCHANGED <<pc, op, args, payment, ticket, outcome, result, found,
                   lookups, fetches, writes, prior, returned, calls, lastOwner,
                   rejected, afterReject>>

Next ==
    \/ \E p \in Procs : \E id \in PaymentIds \cup {UnknownPaymentId} :
            IssueTicketStart(p, id)
    \/ \E p \in Procs : IssueFindOne(p)
    \/ \E p \in Procs : IssueGetTransaction(p)
    \/ \E p \in Procs : IssueSave(p)
    \/ \E p \in Procs : \E i \in 1..MaxTickets : \E c \in Users : \E n \in Users :
            TransferTicketStart(p, i, c, n)
    \/ \E p \in Procs : TransferSave(p)
    \/ \E p \in Procs : Return(p)
    \/ \E i \in 1..MaxTickets : ExternalStatusChange(i)

Spec == Init /\ [][Next]_vars

\* Every pending store or chain call of an invocation completes, and its
\* continuation runs: no timeout or cancellation exists at this layer.
Fairness ==
    \A p \in Procs :
        /\ WF_vars(IssueFindOne(p))
        /\ WF_vars(IssueGetTransaction(p))
        /\ WF_vars(IssueSave(p))
        /\ WF_vars(TransferSave(p))

FairSpec == Spec /\ Fairness

TypeOK ==
    /\ Len(tickets) <= MaxTickets
    /\ \A i \in 1..Len(tickets) : tickets[i].id = i /\ tickets[i].status \in Statuses
    /\ pc \in [Procs -> {"idle", "findOne", "getTransaction", "save", "done"}]
    /\ op \in [Procs -> {"none", "issue", "transfer"}]
    /\ outcome \in [Procs -> {"none", "Ticket", "InvalidRequest", "NotFound",
                              "Forbidden", "QueryFailed"}]
    /\ calls \in 0..MaxCalls

\* ------------------------------------------------------------------ claims
Issuing(p) == op[p] = "issue" /\ payment[p] # NoPayment

\* Rows of the table that carry transaction hash h.
RowsWithHash(h) == {i \in 1..Len(tickets) : tickets[i].transactionHash = h}

\* The memo the chain holds for the hash of p's payment.
ChainMemo(p) == Chain[payment[p].transactionHash].memo

\* C1: in every reachable state, also after two issueTicket invocations for
\* one hash both passed findOne before either saved, no two rows of the
\* ticket table carry the same transaction hash.
C1_AtMostOnePerHash ==
    \A i, j \in 1..Len(tickets) :
        tickets[i].transactionHash = tickets[j].transactionHash => i = j

\* Two invocations for one hash both reached the save; the store took one
\* row and rejected the other.
C1_Witness ==
    \E p, q \in Procs :
        /\ p # q
        /\ Issuing(p) /\ Issuing(q)
        /\ payment[p].transactionHash = payment[q].transactionHash
        /\ found[p] = NoTicket /\ found[q] = NoTicket
        /\ outcome[p] = "Ticket" /\ writes[p] = 1
        /\ outcome[q] = "QueryFailed"

\* C2: an issueTicket invocation that starts after an earlier one for the
\* same payment has returned a ticket returns a ticket with that same
\* identifier, writes nothing, and leaves one row for the payment's hash.
C2_Idempotent ==
    \A p \in Procs :
        (Issuing(p) /\ pc[p] = "done" /\ prior[p] # {}) =>
            /\ outcome[p] = "Ticket"
            /\ prior[p] = {result[p].id}
            /\ writes[p] = 0
            /\ Cardinality(RowsWithHash(payment[p].transactionHash)) = 1

\* A second issueTicket for payment p1 has returned, after a first one
\* that minted the ticket.
C2_Witness ==
    \E p \in Procs :
        /\ Issuing(p) /\ pc[p] = "done" /\ outcome[p] = "Ticket"
        /\ args[p].paymentId = "p1"
        /\ prior[p] # {} /\ result[p].id \in prior[p]

\* C3: an issueTicket invocation for a payment that is not CONFIRMED ends
\* with InvalidRequest without a store lookup, a chain fetch or a write,
\* whatever the payment's hash, the table and the memo are.
C3_NotConfirmedFails ==
    \A p \in Procs :
        (Issuing(p) /\ payment[p].status # "confirmed") =>
            /\ pc[p] = "done"
            /\ outcome[p] = "InvalidRequest"
            /\ lookups[p] = 0 /\ fetches[p] = 0 /\ writes[p] = 0

\* issueTicket failed for the pending payment p7, whose hash tx1 has a
\* ticket in the table and a memo on chain.
C3_Witness ==
    \E p \in Procs :
        /\ Issuing(p) /\ args[p].paymentId = "p7"
        /\ outcome[p] = "InvalidRequest"
        /\ RowsWithHash("tx1") # {}

\* C4: an issueTicket invocation for a CONFIRMED payment whose transaction
\* hash is absent or empty ends with InvalidRequest without a store lookup,
\* a chain fetch or a write.
C4_NoHashFails ==
    \A p \in Procs :
        (Issuing(p) /\ payment[p].status = "confirmed"
                    /\ Falsy(payment[p].transactionHash)) =>
            /\ pc[p] = "done"
            /\ outcome[p] = "InvalidRequest"
            /\ lookups[p] = 0 /\ fetches[p] = 0 /\ writes[p] = 0

\* One invocation failed on an absent hash, another on an empty one.
C4_Witness ==
    \E p, q \in Procs :
        /\ Issuing(p) /\ payment[p].status = "confirmed"
        /\ payment[p].transactionHash = Undefined
        /\ outcome[p] = "InvalidRequest"
        /\ Issuing(q) /\ payment[q].status = "confirmed"
        /\ payment[q].transactionHash = ""
        /\ outcome[q] = "InvalidRequest"

\* An issueTicket invocation adds a row only when the memo on chain is a
\* text memo equal to the payment's id.
C5_MintOnlyOnMatch ==
    \A p \in Procs :
        (op[p] = "issue" /\ Len(tickets') > Len(tickets)
                         /\ writes'[p] = writes[p] + 1) =>
            /\ ChainMemo(p).typeof = "string"
            /\ ChainMemo(p).value = payment[p].id

\* An invocation that found no ticket and fetched a text memo other than
\* the payment's id has ended with InvalidRequest and written nothing.
C5_MismatchFails ==
    \A p \in Procs :
        (Issuing(p) /\ fetches[p] = 1 /\ ChainMemo(p).typeof = "string"
                    /\ ChainMemo(p).value \notin {"", payment[p].id}) =>
            /\ pc[p] = "done"
            /\ outcome[p] = "InvalidRequest"
            /\ writes[p] = 0

\* C5: issueTicket creates a ticket only if the fetched memo is a text memo
\* equal to the payment's id, and with no ticket for the hash and a text
\* memo different from the id it fails with InvalidRequest, persisting
\* nothing.
C5_MemoMustMatch == [][C5_MintOnlyOnMatch /\ C5_MismatchFails']_vars

\* Payment p2 (memo on chain "p1") was refused, and payment p1 minted the
\* ticket for the same hash.
C5_Witness ==
    \E p, q \in Procs :
        /\ Issuing(p) /\ args[p].paymentId = "p2" /\ fetches[p] = 1
        /\ outcome[p] = "InvalidRequest"
        /\ Issuing(q) /\ args[q].paymentId = "p1" /\ writes[q] = 1
        /\ outcome[q] = "Ticket"

\* C6: an issueTicket invocation that found no ticket and fetched a memo
\* that is absent, empty or not a text memo ends with InvalidRequest and
\* writes nothing, also when the non-text memo holds the payment's id.
C6_UnusableMemoFails ==
    \A p \in Procs :
        (Issuing(p) /\ fetches[p] = 1
                    /\ (ChainMemo(p).typeof # "string" \/ ChainMemo(p).value = "")) =>
            /\ found[p] = NoTicket
            /\ pc[p] = "done"
            /\ outcome[p] = "InvalidRequest"
            /\ writes[p] = 0

\* Payment p4 was refused: the memo of its transaction is not a text memo
\* and holds "p4".
C6_Witness ==
    \E p \in Procs :
        /\ Issuing(p) /\ args[p].paymentId = "p4" /\ fetches[p] = 1
        /\ ChainMemo(p) = Memo("object", "p4")
        /\ outcome[p] = "InvalidRequest"

\* C7: the save of a newly created ticket returns and stores a row with
\* eventId, ownerId, assetCode and transactionHash taken from the payment's
\* eventId, userId, currency and transactionHash, and status 'valid'.
C7_MintedFields ==
    [][\A p \in Procs :
        (op[p] = "issue" /\ pc[p] = "save" /\ outcome'[p] = "Ticket") =>
            /\ result'[p].eventId = payment[p].eventId
            /\ result'[p].ownerId = payment[p].userId
            /\ result'[p].assetCode = payment[p].currency
            /\ result'[p].transactionHash = payment[p].transactionHash
            /\ result'[p].status = "valid"
            /\ result'[p].id \in 1..Len(tickets')
            /\ result'[p].id \notin 1..Len(tickets)
            /\ tickets'[result'[p].id] = result'[p]]_vars

\* issueTicket("p1") minted and returned the ticket of the spec's scenario.
C7_Witness ==
    \E p \in Procs :
        /\ Issuing(p) /\ args[p].paymentId = "p1" /\ writes[p] = 1
        /\ outcome[p] = "Ticket"
        /\ result[p] = Tkt(result[p].id, "e1", "u1", "USDC", "tx1", "valid")
        /\ result[p] \in Rows

\* C8 as stated: a succeeding issueTicket invocation has persisted exactly
\* one ticket, a failing one none.
C8_Original ==
    \A p \in Procs :
        (op[p] = "issue" /\ pc[p] = "done") =>
            IF outcome[p] = "Ticket" THEN writes[p] = 1 ELSE writes[p] = 0

\* C8 amended: a step of an issueTicket invocation changes the table only
\* when it is the save of a ticket minted after a lookup that found none,
\* and then it appends exactly the returned row; an invocation whose lookup
\* finds a ticket returns that ticket and leaves the table as it is, and so
\* does every invocation that fails.
C8_IssueFrame ==
    [][\A p \in Procs :
        (pc'[p] # pc[p] /\ op'[p] = "issue") =>
            IF pc'[p] = "done" /\ outcome'[p] = "Ticket" /\ found'[p] = NoTicket
            THEN /\ tickets' = Append(tickets, result'[p])
                 /\ writes'[p] = 1
            ELSE /\ tickets' = tickets
                 /\ writes'[p] = 0
                 /\ found'[p] # NoTicket =>
                        /\ pc'[p] = "done"
                        /\ outcome'[p] = "Ticket"
                        /\ result'[p] = found'[p]]_vars

\* One invocation returned the ticket it minted, another returned the
\* ticket it found, a third failed.
C8_Witness ==
    \E p, q \in Procs :
        /\ p # q
        /\ op[p] = "issue" /\ outcome[p] = "Ticket"
        /\ found[p] # NoTicket /\ writes[p] = 0
        /\ op[q] = "issue" /\ outcome[q] = "InvalidRequest"
        /\ Len(tickets) = 1

\* A transfer that found a valid ticket owned by its caller goes to the
\* save and returns the ticket with the new owner.
C9_OwnerProceeds ==
    \A p \in Procs :
        (op[p] = "transfer" /\ found[p] # NoTicket
            /\ found[p].ownerId = args[p].callerOwnerId
            /\ found[p].status = "valid") =>
            /\ pc[p] \in {"save", "done"}
            /\ pc[p] = "done" =>
                /\ outcome[p] = "Ticket"
                /\ result[p].id = args[p].ticketId
                /\ result[p].ownerId = args[p].newOwnerId

\* The save of a transfer leaves the new owner in the stored row.
C9_SaveStoresOwner ==
    \A p \in Procs :
        (op[p] = "transfer" /\ pc[p] = "save" /\ pc'[p] = "done") =>
            tickets'[args[p].ticketId].ownerId = args[p].newOwnerId

\* C9: transferTicket(ticketId, A, B) on a valid ticket owned by A succeeds,
\* and at its return the stored and the returned ticket have ownerId = B.
C9_OwnerTransfers == [][C9_OwnerProceeds' /\ C9_SaveStoresOwner]_vars

\* A transfer from u1 to u2 returned, and the row is owned by u2.
C9_Witness ==
    \E p \in Procs :
        /\ op[p] = "transfer" /\ outcome[p] = "Ticket"
        /\ args[p].callerOwnerId = "u1" /\ args[p].newOwnerId = "u2"
        /\ found[p].ownerId = "u1"
        /\ result[p].ownerId = "u2"
        /\ tickets[args[p].ticketId].ownerId = "u2"

\* C10: transferTicket by a caller who is not the owner of the ticket it
\* finds ends with Forbidden and leaves the table unchanged, whatever the
\* status of the ticket is.
C10_NonOwnerForbidden ==
    [][\A p \in Procs :
        (pc[p] = "idle" /\ op'[p] = "transfer" /\ found'[p] # NoTicket
            /\ found'[p].ownerId # args'[p].callerOwnerId) =>
            /\ pc'[p] = "done"
            /\ outcome'[p] = "Forbidden"
            /\ writes'[p] = 0
            /\ tickets' = tickets]_vars

\* A caller who is not the owner got Forbidden on a revoked ticket.
C10_Witness ==
    \E p \in Procs :
        /\ op[p] = "transfer" /\ outcome[p] = "Forbidden"
        /\ found[p].status = "revoked"
        /\ found[p].ownerId # args[p].callerOwnerId
        /\ tickets[args[p].ticketId] = found[p]

\* C11: transferTicket by the owner of a ticket whose status is not 'valid'
\* ends with InvalidRequest and leaves the table, so the ticket's owner and
\* status, unchanged.
C11_NonValidRefused ==
    [][\A p \in Procs :
        (pc[p] = "idle" /\ op'[p] = "transfer" /\ found'[p] # NoTicket
            /\ found'[p].ownerId = args'[p].callerOwnerId
            /\ found'[p].status # "valid") =>
            /\ pc'[p] = "done"
            /\ outcome'[p] = "InvalidRequest"
            /\ writes'[p] = 0
            /\ tickets' = tickets]_vars

\* The owner of a revoked ticket asked for its transfer and got
\* InvalidRequest; the row is as it was found.
C11_Witness ==
    \E p \in Procs :
        /\ op[p] = "transfer" /\ outcome[p] = "InvalidRequest"
        /\ found[p].status = "revoked"
        /\ found[p].ownerId = args[p].callerOwnerId
        /\ args[p].newOwnerId # args[p].callerOwnerId
        /\ tickets[args[p].ticketId] = found[p]

\* C12: transferTicket with an id that no row has ends with NotFound for
\* every caller and new owner, and leaves the table unchanged.
C12_MissingNotFound ==
    [][\A p \in Procs :
        (pc[p] = "idle" /\ op'[p] = "transfer"
            /\ args'[p].ticketId \notin 1..Len(tickets)) =>
            /\ found'[p] = NoTicket
            /\ pc'[p] = "done"
            /\ outcome'[p] = "NotFound"
            /\ writes'[p] = 0
            /\ tickets' = tickets]_vars

\* A transfer of ticket 2 got NotFound while the table holds ticket 1 only,
\* owned by the caller.
C12_Witness ==
    \E p \in Procs :
        /\ op[p] = "transfer" /\ outcome[p] = "NotFound"
        /\ args[p].ticketId = 2 /\ Len(tickets) = 1
        /\ tickets[1].ownerId = args[p].callerOwnerId

\* C13: the save of a transfer changes the ownerId of the targeted row and
\* nothing else in the table, and no step of issueTicket or transferTicket
\* removes a row.
C13_TransferFrame ==
    [][\A p \in Procs :
        /\ (op[p] = "transfer" /\ pc[p] = "save" /\ pc'[p] = "done") =>
              tickets' = [tickets EXCEPT
                            ![args[p].ticketId].ownerId = args[p].newOwnerId]
        /\ pc'[p] # pc[p] =>
              /\ Len(tickets') >= Len(tickets)
              /\ \A i \in 1..Len(tickets) : tickets'[i].id = tickets[i].id]_vars

\* C14: every invocation of issueTicket or transferTicket that has ended
\* returned a Ticket or raised InvalidRequest, NotFound or Forbidden, also
\* the invocation whose save the store rejected.
C14_OutcomeTaxonomy ==
    \A p \in Procs :
        pc[p] = "done" =>
            outcome[p] \in {"Ticket", "InvalidRequest", "NotFound", "Forbidden"}

\* C15: an issueTicket invocation whose lookup finds a ticket for the
\* payment's hash has returned that ticket, without a chain fetch and
\* without a write, whatever the memo of the chain transaction is.
C15_ExistingReturned ==
    \A p \in Procs :
        (Issuing(p) /\ found[p] # NoTicket) =>
            /\ pc[p] = "done"
            /\ outcome[p] = "Ticket"
            /\ result[p] = found[p]
            /\ lookups[p] = 1 /\ fetches[p] = 0 /\ writes[p] = 0

\* issueTicket("p2") returned the ticket of hash tx1 although the memo of
\* tx1 is "p1", not "p2".
C15_Witness ==
    \E p \in Procs :
        /\ Issuing(p) /\ args[p].paymentId = "p2"
        /\ ChainMemo(p).value # payment[p].id
        /\ outcome[p] = "Ticket" /\ fetches[p] = 0
        /\ result[p].transactionHash = "tx1"
        /\ result[p] \in Rows

\* C16: every save of a transfer is made while the stored owner of the
\* ticket is the caller of that transfer, so of two overlapping transfers
\* by one owner at most one writes.
C16_WriterIsOwner ==
    [][\A p \in Procs :
        (op[p] = "transfer" /\ pc[p] = "save" /\ writes'[p] = writes[p] + 1) =>
            tickets[args[p].ticketId].ownerId = args[p].callerOwnerId]_vars

\* C17: once the stored status of a ticket is not 'valid', no step changes
\* its ownerId or sets its status to 'valid' again.
C17_NonValidFrozen ==
    [][\A i \in 1..Len(tickets) :
        tickets[i].status # "valid" =>
            /\ tickets'[i].ownerId = tickets[i].ownerId
            /\ tickets'[i].status # "valid"]_vars

\* C18: in every reachable state the ownerId of each row is the newOwnerId
\* of the latest successful transfer of that ticket or, when none succeeded,
\* the userId of the payment it was issued for; a later issueTicket for the
\* payment does not set the owner back.
C18_OwnerIsLatest ==
    /\ Len(lastOwner) = Len(tickets)
    /\ \A i \in 1..Len(tickets) : tickets[i].ownerId = lastOwner[i]

\* The ticket of payment p1 (userId u1) was transferred to u2, and a later
\* issueTicket("p1") returned it, still owned by u2.
C18_Witness ==
    \E p \in Procs :
        /\ Issuing(p) /\ args[p].paymentId = "p1" /\ payment[p].userId = "u1"
        /\ outcome[p] = "Ticket" /\ prior[p] # {}
        /\ result[p].ownerId = "u2"
        /\ tickets[result[p].id].ownerId = "u2"
        /\ lastOwner[result[p].id] = "u2"

\* C19: every ticket that issueTicket(paymentId) returned is bound to that
\* payment: the chain transaction of the ticket's hash carries a text memo
\* equal to paymentId.
C19_ReturnedIsBound ==
    \A p \in Procs :
        (Issuing(p) /\ pc[p] = "done" /\ outcome[p] = "Ticket") =>
            LET memo == GetTransaction(result[p].transactionHash).memo IN
                /\ memo.typeof = "string"
                /\ memo.value = args[p].paymentId

\* An invocation for payment p1..p10 that started after the store had
\* rejected a save for that payment.
StartedAfterRejection(p) == Issuing(p) /\ afterReject[p]

\* The invocation of p has returned the one stored ticket of its payment's
\* hash and has written nothing.
ReturnedStored(p) ==
    /\ pc[p] = "done"
    /\ outcome[p] = "Ticket"
    /\ writes[p] = 0
    /\ RowsWithHash(payment[p].transactionHash) = {result[p].id}

\* After a rejected save one row carries the hash, and an invocation for
\* the payment started after the rejection never fetches, never writes and
\* ends in no other way than by returning the stored ticket.
C20_AfterRejection ==
    /\ \A id \in rejected :
            Cardinality(RowsWithHash(Payments[id].transactionHash)) = 1
    /\ \A p \in Procs :
        StartedAfterRejection(p) =>
            /\ fetches[p] = 0 /\ writes[p] = 0
            /\ pc[p] \in {"findOne", "done"}
            /\ pc[p] = "done" => ReturnedStored(p)

\* C20: when the store rejects the second save of two interleaved
\* issueTicket invocations for a payment, exactly one ticket for the hash is
\* stored, and every issueTicket invocation for that payment started after
\* the rejection eventually returns that ticket without writing.
C20_RaceRecovery ==
    /\ []C20_AfterRejection
    /\ \A p \in Procs : StartedAfterRejection(p) ~> ReturnedStored(p)

\* Two invocations for p1 raced, the store rejected one save, and an
\* invocation for p1 started afterwards has returned the stored ticket.
C20_Witness ==
    \E p \in Procs :
        /\ StartedAfterRejection(p) /\ args[p].paymentId = "p1"
        /\ "p1" \in rejected
        /\ ReturnedStored(p)
====
